---- MODULE Spec2Model ----
(***************************************************************************)
(* Model of the webhook handler in src/main.rs: the POST route             *)
(* webhook_listen, its request guard XHubSignature, the verifier           *)
(* signature_matches and the script the handler spawns.                    *)
(*                                                                         *)
(* Strings are sequences of bytes (a Rust &str is a UTF-8 byte sequence),  *)
(* so split_at_checked, hex::decode and the HMAC see what the code sees.   *)
(* A 32-bit word is a pair <<hi, lo>> of 16-bit halves, because TLC's      *)
(* integers are 32-bit signed.                                             *)
(***************************************************************************)
EXTENDS Integers, Sequences, FiniteSets

(***************************************************************************)
(* Bit operations on nibbles, bytes and 16-bit halves.                     *)
(***************************************************************************)
RECURSIVE BitAnd(_, _, _)
BitAnd(a, b, n) ==
    IF n = 0 THEN 0
    ELSE (a % 2) * (b % 2) + 2 * BitAnd(a \div 2, b \div 2, n - 1)

And4 == [i \in 0..255 |-> BitAnd(i \div 16, i % 16, 4)]

And8(a, b) ==
    And4[(a \div 16) * 16 + (b \div 16)] * 16 + And4[(a % 16) * 16 + (b % 16)]

Xor8(a, b) == a + b - 2 * And8(a, b)

And16(a, b) == And8(a \div 256, b \div 256) * 256 + And8(a % 256, b % 256)

Xor16(a, b) == a + b - 2 * And16(a, b)

Pow2 == [n \in 0..16 |-> IF n = 0 THEN 1 ELSE 2 ^ n]

(***************************************************************************)
(* 32-bit words as <<hi, lo>>.                                             *)
(***************************************************************************)
WXor(x, y) == <<Xor16(x[1], y[1]), Xor16(x[2], y[2])>>

WAnd(x, y) == <<And16(x[1], y[1]), And16(x[2], y[2])>>

WNot(x) == <<65535 - x[1], 65535 - x[2]>>

\* wrapping_add
WAdd(x, y) ==
    LET lo == x[2] + y[2]
        hi == x[1] + y[1] + (lo \div 65536)
    IN  <<hi % 65536, lo % 65536>>

\* rotate right by n, 0 < n < 32
RotR(x, n) ==
    LET s == IF n >= 16 THEN <<x[2], x[1]>> ELSE x
        m == n % 16
        p == Pow2[m]
        q == Pow2[16 - m]
    IN  IF m = 0 THEN s
        ELSE <<(s[1] \div p) + (s[2] % p) * q, (s[2] \div p) + (s[1] % p) * q>>

\* shift right by n, 0 < n < 16
ShR(x, n) ==
    LET p == Pow2[n]
        q == Pow2[16 - n]
    IN  <<x[1] \div p, (x[2] \div p) + (x[1] % p) * q>>

(***************************************************************************)
(* SHA-256 (FIPS 180-4), as computed by sha2::Sha256.                      *)
(***************************************************************************)
K ==
    << <<17034, 12184>>, <<28983, 17553>>, <<46528, 64463>>, <<59829, 56229>>,
       <<14678, 49755>>, <<23025, 4593>>, <<37439, 33444>>, <<43804, 24277>>,
       <<55303, 43672>>, <<4739, 23297>>, <<9265, 34238>>, <<21772, 32195>>,
       <<29374, 23924>>, <<32990, 45566>>, <<39900, 1703>>, <<49563, 61812>>,
       <<58523, 27073>>, <<61374, 18310>>, <<4033, 40390>>, <<9228, 41420>>,
       <<11753, 11375>>, <<19060, 33962>>, <<23728, 43484>>, <<30457, 35034>>,
       <<38974, 20818>>, <<43057, 50797>>, <<45059, 10184>>, <<48985, 32711>>,
       <<50912, 3059>>, <<54695, 37191>>, <<1738, 25425>>, <<5161, 10599>>,
       <<10167, 2693>>, <<11803, 8504>>, <<19756, 28156>>, <<21304, 3347>>,
       <<25866, 29524>>, <<30314, 2747>>, <<33218, 51502>>, <<37490, 11397>>,
       <<41663, 59553>>, <<43034, 26187>>, <<49739, 35696>>, <<51052, 20899>>,
       <<53650, 59417>>, <<54937, 1572>>, <<62478, 13701>>, <<4202, 41072>>,
       <<6564, 49430>>, <<7735, 27656>>, <<10056, 30540>>, <<13488, 48309>>,
       <<14620, 3251>>, <<20184, 43594>>, <<23452, 51791>>, <<26670, 28659>>,
       <<29839, 33518>>, <<30885, 25455>>, <<33992, 30740>>, <<36039, 520>>,
       <<37054, 65530>>, <<42064, 27883>>, <<48889, 41975>>, <<50801, 30962>> >>

H0 ==
    << <<27145, 58983>>, <<47975, 44677>>, <<15470, 62322>>, <<42319, 62778>>,
       <<20750, 21119>>, <<39685, 26764>>, <<8067, 55723>>, <<23520, 52505>> >>

BigSigma0(x) == WXor(WXor(RotR(x, 2), RotR(x, 13)), RotR(x, 22))

BigSigma1(x) == WXor(WXor(RotR(x, 6), RotR(x, 11)), RotR(x, 25))

SmallSigma0(x) == WXor(WXor(RotR(x, 7), RotR(x, 18)), ShR(x, 3))

SmallSigma1(x) == WXor(WXor(RotR(x, 17), RotR(x, 19)), ShR(x, 10))

Ch(x, y, z) == WXor(WAnd(x, y), WAnd(WNot(x), z))

Maj(x, y, z) == WXor(WXor(WAnd(x, y), WAnd(x, z)), WAnd(y, z))

\* The 16 big-endian words of a 64-byte block.
BlockWords(blk) ==
    [i \in 1..16 |->
        <<blk[4 * i - 3] * 256 + blk[4 * i - 2], blk[4 * i - 1] * 256 + blk[4 * i]>>]

\* Words lo..hi of the message schedule appended to w (which holds words
\* 1..lo-1).  The range is split in halves, and the first half is bound as a
\* value before the second reads it, to keep the evaluation shallow.
RECURSIVE Schedule(_, _, _)
Schedule(w, lo, hi) ==
    IF lo = hi
    THEN Append(w, WAdd(WAdd(SmallSigma1(w[lo - 2]), w[lo - 7]),
                        WAdd(SmallSigma0(w[lo - 15]), w[lo - 16])))
    ELSE LET mid == (lo + hi) \div 2
         IN  CHOOSE r \in {Schedule(v, mid + 1, hi) : v \in {Schedule(w, lo, mid)}} : TRUE

\* One round on the working variables s = <<a, b, c, d, e, f, g, h>>.
Round(s, kt, wt) ==
    LET t1 == WAdd(WAdd(WAdd(s[8], BigSigma1(s[5])), Ch(s[5], s[6], s[7])),
                   WAdd(kt, wt))
        t2 == WAdd(BigSigma0(s[1]), Maj(s[1], s[2], s[3]))
    IN  <<WAdd(t1, t2), s[1], s[2], s[3], WAdd(s[4], t1), s[5], s[6], s[7]>>

\* Rounds lo..hi, split in halves like Schedule.
RECURSIVE Rounds(_, _, _, _)
Rounds(s, w, lo, hi) ==
    IF lo = hi THEN Round(s, K[lo], w[lo])
    ELSE LET mid == (lo + hi) \div 2
         IN  CHOOSE r \in {Rounds(v, w, mid + 1, hi) : v \in {Rounds(s, w, lo, mid)}} : TRUE

Compress(h, blk) ==
    CHOOSE r \in
        {<<WAdd(h[1], s[1]), WAdd(h[2], s[2]), WAdd(h[3], s[3]), WAdd(h[4], s[4]),
           WAdd(h[5], s[5]), WAdd(h[6], s[6]), WAdd(h[7], s[7]), WAdd(h[8], s[8])>> :
            s \in {Rounds(h, w, 1, 64) : w \in {Schedule(BlockWords(blk), 17, 64)}}} : TRUE

Zeros(n) == [i \in 1..n |-> 0]

\* The message followed by 0x80, zeros and its 64-bit big-endian bit length.
Pad(msg) ==
    LET n    == Len(msg)
        z    == (55 - n) % 64
        bits == n * 8
    IN  msg \o <<128>> \o Zeros(z) \o Zeros(4)
            \o <<(bits \div 16777216) % 256, (bits \div 65536) % 256,
                 (bits \div 256) % 256, bits % 256>>

RECURSIVE Blocks(_, _, _)
Blocks(h, padded, i) ==
    IF i * 64 >= Len(padded) THEN h
    ELSE CHOOSE r \in {Blocks(v, padded, i + 1) :
                            v \in {Compress(h, SubSeq(padded, i * 64 + 1, i * 64 + 64))}} : TRUE

WordBytes(x) == <<x[1] \div 256, x[1] % 256, x[2] \div 256, x[2] % 256>>

Sha256(msg) ==
    CHOOSE r \in
        {WordBytes(h[1]) \o WordBytes(h[2]) \o WordBytes(h[3]) \o WordBytes(h[4])
            \o WordBytes(h[5]) \o WordBytes(h[6]) \o WordBytes(h[7]) \o WordBytes(h[8]) :
            h \in {Blocks(H0, p, 0) : p \in {Pad(msg)}}} : TRUE

(***************************************************************************)
(* HMAC (RFC 2104) over SHA-256, as computed by                            *)
(* hmac::Hmac::<sha2::Sha256>::new_from_slice(key).chain_update(msg).      *)
(***************************************************************************)
BlockSize == 64

\* A key longer than a block is hashed first; the key is zero-padded to a block.
PadKey(key) ==
    CHOOSE r \in {k0 \o Zeros(BlockSize - Len(k0)) :
                     k0 \in {IF Len(key) > BlockSize THEN Sha256(key) ELSE key}} : TRUE

XorBytes(bytes, c) == [i \in 1..Len(bytes) |-> Xor8(bytes[i], c)]

HmacSha256(key, msg) ==
    CHOOSE r \in
        {Sha256(XorBytes(kp, 92) \o inner) :
            inner \in {Sha256(XorBytes(kp, 54) \o msg) : kp \in {PadKey(key)}},
            kp \in {PadKey(key)}} : TRUE

\* HMAC-SHA256 output size in bytes (digest::OutputSizeUser for Hmac<Sha256>).
OutputSize == 32

(***************************************************************************)
(* Option and Result values.  None is <<>> and Some(v) is <<v>>.           *)
(***************************************************************************)
None == <<>>

Some(v) == <<v>>

IsSome(o) == o # <<>>

Unwrap(o) == o[1]

(***************************************************************************)
(* str::split_at_checked and str::is_char_boundary on UTF-8 bytes.         *)
(***************************************************************************)
\* Mutant of is_char_boundary: only the length is checked, as for ASCII.
is_char_boundary_ascii(str, index) == index <= Len(str)

\* A byte is a char boundary unless it is a UTF-8 continuation byte
\* (0x80..0xBF); the end of the string is a boundary, past the end is not.
is_char_boundary(str, index) ==
    IF index = 0 THEN TRUE
    ELSE IF index >= Len(str) THEN index = Len(str)
    ELSE LET b == str[index + 1] IN b < 128 \/ b >= 192

split_at_checked(str, mid) ==
    IF is_char_boundary(str, mid)
    THEN Some(<<SubSeq(str, 1, mid), SubSeq(str, mid + 1, Len(str))>>)
    ELSE None

(***************************************************************************)
(* hex::decode and hex::encode.                                            *)
(***************************************************************************)
\* Mutant of val: the letters lose their offset of 10.
val_no_offset(c) ==
    IF c >= 65 /\ c <= 70 THEN c - 65
    ELSE IF c >= 97 /\ c <= 102 THEN c - 97
    ELSE IF c >= 48 /\ c <= 57 THEN c - 48
    ELSE -1

\* hex::val: the value of a hex digit, or -1 for InvalidHexCharacter.
val(c) ==
    IF c >= 65 /\ c <= 70 THEN c - 65 + 10
    ELSE IF c >= 97 /\ c <= 102 THEN c - 97 + 10
    ELSE IF c >= 48 /\ c <= 57 THEN c - 48
    ELSE -1

\* Ok(bytes) is [ok |-> TRUE, bytes], Err(e) is [ok |-> FALSE, err |-> e].
hex_decode(hex) ==
    IF Len(hex) % 2 # 0
    THEN [ok |-> FALSE, err |-> "OddLength", bytes |-> <<>>]
    ELSE IF \E i \in 1..Len(hex) : val(hex[i]) = -1
    THEN [ok |-> FALSE, err |-> "InvalidHexCharacter", bytes |-> <<>>]
    ELSE [ok |-> TRUE, err |-> "",
          bytes |-> [i \in 1..(Len(hex) \div 2) |->
                        val(hex[2 * i - 1]) * 16 + val(hex[2 * i])]]

\* The lower-case hex digit of a nibble.
HexDigit(n) == IF n < 10 THEN 48 + n ELSE 97 + n - 10

hex_encode(bytes) ==
    [i \in 1..(2 * Len(bytes)) |->
        IF i % 2 = 1 THEN HexDigit(bytes[(i + 1) \div 2] \div 16)
        ELSE HexDigit(bytes[i \div 2] % 16)]

(***************************************************************************)
(* The values the tests and the examples use, as bytes.                    *)
(***************************************************************************)
\* "VerySecure"
SecretValid == <<86, 101, 114, 121, 83, 101, 99, 117, 114, 101>>

\* "Very Secure!"
SecretInvalid == <<86, 101, 114, 121, 32, 83, 101, 99, 117, 114, 101, 33>>

\* "It's a Secret to Everybody"
SecretGeneration ==
    <<73, 116, 39, 115, 32, 97, 32, 83, 101, 99, 114, 101, 116, 32, 116, 111, 32,
      69, 118, 101, 114, 121, 98, 111, 100, 121>>

\* .json(&"{}") sends the JSON string "{}", quotes included.
BodyEmpty == <<34, 123, 125, 34>>

\* .json(&"{\"test\": 1}") sends "{\"test\": 1}", quotes and backslashes included.
BodyTest == <<34, 123, 92, 34, 116, 101, 115, 116, 92, 34, 58, 32, 49, 125, 34>>

\* "Hello, World!"
BodyHello == <<72, 101, 108, 108, 111, 44, 32, 87, 111, 114, 108, 100, 33>>

Secrets == {SecretValid, SecretInvalid, SecretGeneration}

Payloads == {BodyEmpty, BodyTest, BodyHello}

(***************************************************************************)
(* signature_matches.                                                      *)
(***************************************************************************)
\* The MACs of the secrets and payloads of the model, computed once.
MacTable == [k \in Secrets |-> [m \in Payloads |-> HmacSha256(k, m)]]

\* Hmac::<Sha256>::new_from_slice(secret).unwrap().chain_update(payload),
\* finalized.  new_from_slice accepts a key of any length, so unwrap never panics.
Mac(secret, payload) ==
    IF secret \in Secrets /\ payload \in Payloads
    THEN MacTable[secret][payload]
    ELSE HmacSha256(secret, payload)

\* Mutant of verify_slice: the tag is compared with as many bytes of the MAC
\* as it has (Mac::verify_truncated_left).
verify_truncated_left(mac, tag) ==
    IF Len(tag) > OutputSize THEN FALSE ELSE SubSeq(mac, 1, Len(tag)) = tag

\* Mac::verify_slice: the tag must have the output size and equal the MAC.
verify_slice(mac, tag) ==
    IF Len(tag) # OutputSize THEN FALSE ELSE mac = tag

\* The length of the "sha256=" the code removes (split_at_checked(7)).
PrefixLen == 7

\* "sha256="
Sha256Prefix == <<115, 104, 97, 50, 53, 54, 61>>

\* Mutant of signature_matches: the seven bytes must be "sha256=".
signature_matches_strip_prefix(secret, payload, signature) ==
    LET split == split_at_checked(signature, PrefixLen)
    IN  IF ~IsSome(split) \/ Unwrap(split)[1] # Sha256Prefix
        THEN [result |-> "NotASCII", detail |-> "", steps |-> <<"split">>]
        ELSE LET hex_signature == Unwrap(split)[2]
                 binding == hex_decode(hex_signature)
             IN  IF ~binding.ok
                 THEN [result |-> "BadHex", detail |-> binding.err,
                       steps |-> <<"split", "hex">>]
                 ELSE IF verify_slice(Mac(secret, payload), binding.bytes)
                 THEN [result |-> "Ok", detail |-> "",
                       steps |-> <<"split", "hex", "hmac">>]
                 ELSE [result |-> "ValidationError", detail |-> "MacError",
                       steps |-> <<"split", "hex", "hmac">>]

\* The result, and in steps the sub-steps that ran.
signature_matches(secret, payload, signature) ==
    LET split == split_at_checked(signature, PrefixLen)
    IN  IF ~IsSome(split)
        THEN [result |-> "NotASCII", detail |-> "", steps |-> <<"split">>]
        ELSE LET hex_signature == Unwrap(split)[2]
                 binding == hex_decode(hex_signature)
             IN  IF ~binding.ok
                 THEN [result |-> "BadHex", detail |-> binding.err,
                       steps |-> <<"split", "hex">>]
                 ELSE IF verify_slice(Mac(secret, payload), binding.bytes)
                 THEN [result |-> "Ok", detail |-> "",
                       steps |-> <<"split", "hex", "hmac">>]
                 ELSE [result |-> "ValidationError", detail |-> "MacError",
                       steps |-> <<"split", "hex", "hmac">>]

(***************************************************************************)
(* The requests a client can send.                                         *)
(***************************************************************************)
\* "sha512="
Sha512Prefix == <<115, 104, 97, 53, 49, 50, 61>>

\* "é" (two bytes) followed by "a256=": seven bytes, six characters
AccentPrefix == <<195, 169, 97, 50, 53, 54, 61>>

\* "sha256" followed by "é": byte offset 7 is inside the "é"
StraddlingHeader == <<115, 104, 97, 50, 53, 54, 195, 169>>

\* "N/A" (tests::no_env)
HeaderNA == <<78, 47, 65>>

\* "Not_A_Match" (tests::no_signature, tests::no_script)
HeaderNotAMatch == <<78, 111, 116, 95, 65, 95, 77, 97, 116, 99, 104>>

\* "sha256=0123acd" (tests::invalid_signature)
HeaderOddHex == <<115, 104, 97, 50, 53, 54, 61, 48, 49, 50, 51, 97, 99, 100>>

\* "sha256=757107ea...3e17" (tests::signature_generation), from its digest bytes
HeaderGeneration ==
    Sha256Prefix \o hex_encode(
        <<117, 113, 7, 234, 14, 178, 80, 159, 194, 17, 34, 28, 206, 152, 75, 138,
          55, 87, 11, 109, 117, 134, 194, 44, 70, 244, 55, 156, 139, 4, 62, 23>>)

\* "sha256=f5cf34a2...471a" (tests::valid_request), from its digest bytes
HeaderValidRequest ==
    Sha256Prefix \o hex_encode(
        <<245, 207, 52, 162, 192, 54, 69, 47, 216, 12, 237, 117, 8, 229, 194, 49,
          177, 175, 165, 192, 87, 19, 234, 248, 118, 16, 73, 158, 226, 63, 71, 26>>)

\* The hex digest a holder of `secret` sends for `payload`.
Signed(secret, payload) == hex_encode(Mac(secret, payload))

ToUpper(str) ==
    [i \in 1..Len(str) |-> IF str[i] >= 97 /\ str[i] <= 122 THEN str[i] - 32 ELSE str[i]]

ToLower(str) ==
    [i \in 1..Len(str) |-> IF str[i] >= 65 /\ str[i] <= 90 THEN str[i] + 32 ELSE str[i]]

\* The hex digit at position k replaced by another hex digit.
Flip(hex, k) == [hex EXCEPT ![k] = IF hex[k] = 48 THEN 49 ELSE 48]

\* The largest number of trailing hex digits a truncated signature lacks.
MaxCut == 2

\* What a sender can make of a hex digest: as is, in upper case, with one
\* digit changed, truncated, extended by a byte, with a non-hex character.
Variants(hex) ==
    {hex, ToUpper(hex), Flip(hex, 1), Flip(hex, Len(hex)), hex \o <<48, 48>>,
     [hex EXCEPT ![1] = 103], hex \o <<195, 169>>}
        \cup {SubSeq(hex, 1, Len(hex) - c) : c \in 1..MaxCut}

Tails ==
    UNION {Variants(Signed(k, m)) : k \in Secrets, m \in Payloads}
        \cup {<<>>, <<48, 49, 50, 51>>}

Prefixes == {Sha256Prefix, Sha512Prefix, AccentPrefix}

\* The strings shorter than the prefix.
ShortHeaders == {SubSeq(Sha256Prefix, 1, n) : n \in 0..(PrefixLen - 1)} \cup {HeaderNA}

Headers ==
    {p \o t : p \in Prefixes, t \in Tails}
        \cup ShortHeaders
        \cup {StraddlingHeader, StraddlingHeader \o Signed(SecretValid, BodyTest),
              HeaderNotAMatch, HeaderOddHex}

\* Requests of the handler's state machine: the headers of the tests, and the
\* valid signature of tests::valid_request behind another seven bytes.
RequestHeaders ==
    {HeaderValidRequest, Sha512Prefix \o Signed(SecretValid, BodyTest),
     HeaderNA, HeaderNotAMatch, HeaderOddHex}

RequestBodies == {BodyTest, BodyEmpty}

\* A POST / with Content-Type JSON and a body the String data guard accepts.
Requests ==
    [header : {None} \cup {Some(h) : h \in RequestHeaders}, body : RequestBodies]

(***************************************************************************)
(* The process environment and the file system.                            *)
(***************************************************************************)
\* "test.sh", the script of tests::valid_request:
\* cd to the temp dir; echo 'hi' > file.temp
ScriptTest == <<116, 101, 115, 116, 46, 115, 104>>

\* "script.sh", the path of the other tests, where there is no such file.
ScriptMissing == <<115, 99, 114, 105, 112, 116, 46, 115, 104>>

\* "hi\n"
FileContent == <<104, 105, 10>>

\* The number of requests the client sends.
MaxRequests == 2

VARIABLES
    env,        \* environment variable name -> Option of its value
    requests,   \* the requests sent so far, in order
    responses,  \* per request, None or Some of the response and what ran
    returning,  \* per request, Some of what webhook_listen is about to return
                \* while it is past Command::spawn and has not returned
    spawned,    \* the Command::spawn calls so far: [req, path, ok]
    children,   \* the bash processes spawned: [req, path, pc, code]
    file,       \* Option of the content of file.temp
    call        \* the verifier alone: None or Some of a call and its result

vars == <<env, requests, responses, returning, spawned, children, file, call>>

\* The names of the environment variables.
WEBHOOK_STRING == "WEBHOOK_SECRET"

SCRIPT_STRING == "WEBHOOK_SCRIPT"

\* Mutant of env_var: an unset variable reads as the empty string
\* (env::var(..).unwrap_or_default()).
env_var_or_default(name) == IF IsSome(env[name]) THEN env[name] ELSE Some(<<>>)

\* env::var
env_var(name) == env[name]

(***************************************************************************)
(* XHubSignature::from_request and webhook_listen.                         *)
(***************************************************************************)
\* Mutant of from_request: a missing header reads as the empty signature
\* (get_one(HEADER).unwrap_or("")).
from_request_or_empty(request) ==
    IF IsSome(request.header)
    THEN [success |-> TRUE, signature |-> Unwrap(request.header), status |-> ""]
    ELSE [success |-> TRUE, signature |-> <<>>, status |-> ""]

\* Outcome::Success(signature) or Outcome::Error((Status::BadRequest, ())).
from_request(request) ==
    IF IsSome(request.header)
    THEN [success |-> TRUE, signature |-> Unwrap(request.header), status |-> ""]
    ELSE [success |-> FALSE, signature |-> <<>>, status |-> "BadRequest"]

\* What a dispatch leaves: the response status, the steps of the handler that
\* ran, what eprintln! wrote, the sub-steps of signature_matches that ran, and
\* Some(path) when the handler called Command::spawn.
Reply(status, steps, stderr, verify, spawn) ==
    [status |-> status, steps |-> steps, stderr |-> stderr, verify |-> verify,
     spawn |-> spawn]

\* Mutant of execute_script: the error of Command::spawn is dropped.
execute_script_unchecked(path, verify, spawn_ok) ==
    Reply("Ok", <<"env_script", "env_secret", "verify", "spawn">>, "", verify, Some(path))

\* "Execute script": Command::new("bash").arg(path).spawn(), where spawn_ok is
\* whether spawn returns Ok.
execute_script(path, verify, spawn_ok) ==
    IF spawn_ok
    THEN Reply("Ok", <<"env_script", "env_secret", "verify", "spawn">>, "",
               verify, Some(path))
    ELSE Reply("InternalServerError", <<"env_script", "env_secret", "verify", "spawn">>,
               "Could not execute bash script", verify, Some(path))

\* Mutant of check_signature: the error is logged and the handler goes on
\* (the return is missing).
check_signature_no_return(secret, user_input, signature, path, spawn_ok) ==
    execute_script(path, signature_matches(secret, user_input, signature).steps, spawn_ok)

\* Mutant of check_signature: a signature that is no hex is answered BadRequest.
check_signature_bad_request(secret, user_input, signature, path, spawn_ok) ==
    LET m == signature_matches(secret, user_input, signature)
    IN  IF m.result = "BadHex"
        THEN Reply("BadRequest", <<"env_script", "env_secret", "verify">>, m.result,
                   m.steps, None)
        ELSE IF m.result # "Ok"
        THEN Reply("Unauthorized", <<"env_script", "env_secret", "verify">>, m.result,
                   m.steps, None)
        ELSE execute_script(path, m.steps, spawn_ok)

\* "Check if sent signature was produced from matching secret", and then the
\* script.
check_signature(secret, user_input, signature, path, spawn_ok) ==
    LET m == signature_matches(secret, user_input, signature)
    IN  IF m.result # "Ok"
        THEN Reply("Unauthorized", <<"env_script", "env_secret", "verify">>, m.result,
                   m.steps, None)
        ELSE execute_script(path, m.steps, spawn_ok)

\* The handler's body.  spawn_ok is whether Command::spawn succeeds, should the
\* handler reach it.
webhook_listen(signature, user_input, spawn_ok) ==
    LET path == env_var(SCRIPT_STRING)
    IN  IF ~IsSome(path)
        THEN Reply("InternalServerError", <<"env_script">>,
                   "Could not get script path from environment", <<>>, None)
        ELSE LET secret == env_var(WEBHOOK_STRING)
             IN  IF ~IsSome(secret)
                 THEN Reply("InternalServerError", <<"env_script", "env_secret">>,
                            "Could not get secret key from environment", <<>>, None)
                 ELSE check_signature(Unwrap(secret), user_input, signature,
                                      Unwrap(path), spawn_ok)

\* Rocket's dispatch of a request to the route: the request guard, then the
\* handler unless the guard failed.
dispatch(request, spawn_ok) ==
    LET guard == from_request(request)
    IN  IF ~guard.success
        THEN Reply(guard.status, <<>>, "", <<>>, None)
        ELSE webhook_listen(guard.signature, request.body, spawn_ok)

(***************************************************************************)
(* The state machine.                                                      *)
(***************************************************************************)
EnvValues ==
    [WEBHOOK_SECRET : {None, Some(SecretValid), Some(SecretInvalid)},
     WEBHOOK_SCRIPT : {None, Some(ScriptTest), Some(ScriptMissing)}]

Init ==
    /\ env \in EnvValues
    /\ requests = <<>>
    /\ responses = <<>>
    /\ returning = <<>>
    /\ spawned = <<>>
    /\ children = <<>>
    /\ file = None
    /\ call = None

\* The client sends a request.
Send(request) ==
    /\ Len(requests) < MaxRequests
    /\ requests' = Append(requests, request)
    /\ responses' = Append(responses, None)
    /\ returning' = Append(returning, None)
    /\ UNCHANGED <<env, spawned, children, file, call>>

\* The server runs the request guard and webhook_listen for request i.  A
\* handler that reaches Command::spawn stops when spawn has returned, with a
\* child or with an error: the eprintln!, the return and Rocket's response
\* come later, and other handlers and the children run in between.  A handler
\* that returns before the spawn, and the guard that fails, runs to its
\* response.
Handle(i, spawn_ok) ==
    /\ responses[i] = None
    /\ returning[i] = None
    /\ LET r == dispatch(requests[i], spawn_ok)
       IN  IF IsSome(r.spawn)
           THEN /\ spawned' =
                     Append(spawned, [req |-> i, path |-> Unwrap(r.spawn), ok |-> spawn_ok])
                /\ children' =
                     IF spawn_ok
                     THEN Append(children,
                                 [req |-> i, path |-> Unwrap(r.spawn), pc |-> "running",
                                  code |-> -1])
                     ELSE children
                /\ returning' = [returning EXCEPT ![i] = Some(r)]
                /\ UNCHANGED responses
           ELSE /\ responses' = [responses EXCEPT ![i] = Some(r)]
                /\ UNCHANGED <<spawned, children, returning>>
    /\ UNCHANGED <<env, requests, file, call>>

\* webhook_listen returns from the match on the result of spawn, Status::Ok
\* or, after the eprintln!, Status::InternalServerError, and Rocket answers
\* request i, wherever the children are by then.
Return(i) ==
    /\ IsSome(returning[i])
    /\ responses' = [responses EXCEPT ![i] = returning[i]]
    /\ returning' = [returning EXCEPT ![i] = None]
    /\ UNCHANGED <<env, requests, spawned, children, file, call>>

\* bash on a path that is no file: it exits with 127.
BashNoSuchFile(k) ==
    /\ children[k].pc = "running"
    /\ children[k].path # ScriptTest
    /\ children' = [children EXCEPT ![k].pc = "exited", ![k].code = 127]
    /\ UNCHANGED <<env, requests, responses, returning, spawned, file, call>>

\* The script's redirection creates or truncates file.temp.
ScriptOpen(k) ==
    /\ children[k].pc = "running"
    /\ children[k].path = ScriptTest
    /\ children' = [children EXCEPT ![k].pc = "opened"]
    /\ file' = Some(<<>>)
    /\ UNCHANGED <<env, requests, responses, returning, spawned, call>>

\* write(2) on a descriptor opened without O_APPEND: the bytes land at the
\* descriptor's own offset, replace what is there, and leave the rest.
WriteAt(content, offset, data) ==
    SubSeq(content, 1, offset) \o data
        \o SubSeq(content, offset + Len(data) + 1, Len(content))

\* echo writes its line at offset 0 of the descriptor its own redirection
\* opened, whatever another child has written to the file since.
ScriptWrite(k) ==
    /\ children[k].pc = "opened"
    /\ children' = [children EXCEPT ![k].pc = "written"]
    /\ file' = Some(WriteAt(Unwrap(file), 0, FileContent))
    /\ UNCHANGED <<env, requests, responses, returning, spawned, call>>

ScriptExit(k) ==
    /\ children[k].pc = "written"
    /\ children' = [children EXCEPT ![k].pc = "exited", ![k].code = 0]
    /\ UNCHANGED <<env, requests, responses, returning, spawned, file, call>>

Next ==
    \/ \E request \in Requests : Send(request)
    \/ \E i \in 1..Len(requests), spawn_ok \in BOOLEAN : Handle(i, spawn_ok)
    \/ \E i \in 1..Len(requests) : Return(i)
    \/ \E k \in 1..Len(children) : BashNoSuchFile(k)
    \/ \E k \in 1..Len(children) : ScriptOpen(k)
    \/ \E k \in 1..Len(children) : ScriptWrite(k)
    \/ \E k \in 1..Len(children) : ScriptExit(k)

Spec == Init /\ [][Next]_vars

(***************************************************************************)
(* The verifier alone, on every secret, payload and header of the model.   *)
(***************************************************************************)
Verify(secret, payload, signature) ==
    /\ call = None
    /\ call' = Some([secret |-> secret, payload |-> payload, signature |-> signature,
                     out |-> signature_matches(secret, payload, signature)])
    /\ UNCHANGED <<env, requests, responses, returning, spawned, children, file>>

NextVerify ==
    \E secret \in Secrets, payload \in Payloads, signature \in Headers :
        Verify(secret, payload, signature)

SpecVerify == Init /\ [][NextVerify]_vars

(***************************************************************************)
(* Properties.                                                             *)
(***************************************************************************)
Handled == {i \in 1..Len(requests) : IsSome(responses[i])}

Response(i) == Unwrap(responses[i])

\* The requests whose handler is past Command::spawn and has not returned.
Returning == {i \in 1..Len(requests) : IsSome(returning[i])}

\* The requests the server has begun to handle.
Started == Handled \cup Returning

\* The number of times the handler called Command::spawn for request i.
Launches(i) == Cardinality({k \in 1..Len(spawned) : spawned[k].req = i})

ConfigSet == IsSome(env[WEBHOOK_STRING]) /\ IsSome(env[SCRIPT_STRING])

HasHeader(i) == IsSome(requests[i].header)

HeaderOf(i) == Unwrap(requests[i].header)

\* What follows the first seven bytes.
HexPart(signature) == SubSeq(signature, PrefixLen + 1, Len(signature))

IsHexDigit(c) == c \in (48..57) \cup (65..70) \cup (97..102)

SignatureErrors == {"NotASCII", "BadHex", "ValidationError"}

\* C1: a script is launched for a request only if the request carried the
\* header, both environment variables were set and signature_matches returned
\* Ok for the secret, the body and the header; no request is launched for more
\* than once, whether it has been answered or its handler is still between
\* the spawn and its return; and every launch and every child process belongs
\* to a request whose handler ran.
C1_LaunchOnlyIfAuthenticated ==
    /\ \A i \in 1..Len(requests) :
        /\ Launches(i) <= 1
        /\ Launches(i) = 1 =>
            /\ i \in Started
            /\ HasHeader(i)
            /\ ConfigSet
            /\ signature_matches(Unwrap(env[WEBHOOK_STRING]), requests[i].body,
                                 HeaderOf(i)).result = "Ok"
        /\ i \in Returning => Launches(i) = 1
    /\ \A k \in 1..Len(spawned) : spawned[k].req \in Started
    /\ \A k \in 1..Len(children) :
        /\ \E a \in 1..Len(spawned) : spawned[a].req = children[k].req /\ spawned[a].ok
        /\ \A j \in 1..Len(children) : children[j].req = children[k].req => j = k
    /\ Len(children) <= Len(spawned)

\* A request launched and not yet answered, beside a request with a header
\* that was refused.
C1_Witness ==
    \E i \in Returning, j \in Handled :
        /\ Launches(i) = 1
        /\ HasHeader(j) /\ Launches(j) = 0 /\ Response(j).status = "Unauthorized"

\* C2: with the secret or the script path unset, a request that carries the
\* header is answered InternalServerError, never Unauthorized, the signature
\* is not verified and no script is launched.
C2_MissingConfigIsServerError ==
    \A i \in Handled :
        (HasHeader(i) /\ ~ConfigSet) =>
            /\ Response(i).status = "InternalServerError"
            /\ Response(i).status # "Unauthorized"
            /\ Response(i).verify = <<>>
            /\ Launches(i) = 0

\* The script path is set, the secret is not, and the header is no signature.
C2_Witness ==
    \E i \in Handled :
        /\ HasHeader(i) /\ HeaderOf(i) = HeaderNotAMatch
        /\ ~IsSome(env[WEBHOOK_STRING]) /\ IsSome(env[SCRIPT_STRING])

\* C3: a signature whose part after the prefix has odd length or a non-hex
\* character fails with BadHex, which is not the ValidationError of a digest
\* mismatch; and every kind of signature error is answered Unauthorized with
\* no launch.
C3_ErrorsFoldToUnauthorized ==
    \A i \in Handled :
        (HasHeader(i) /\ ConfigSet) =>
            LET h == HeaderOf(i)
                t == HexPart(h)
            IN  /\ (/\ Len(h) >= PrefixLen
                    /\ is_char_boundary(h, PrefixLen)
                    /\ (Len(t) % 2 = 1 \/ \E n \in 1..Len(t) : ~IsHexDigit(t[n])))
                        => /\ Response(i).stderr = "BadHex"
                           /\ Response(i).stderr # "ValidationError"
                /\ Response(i).stderr \in SignatureErrors =>
                        /\ Response(i).status = "Unauthorized"
                        /\ Launches(i) = 0
                /\ Response(i).status = "Unauthorized" =>
                        Response(i).stderr \in SignatureErrors

\* A BadHex and a ValidationError, both answered Unauthorized.
C3_Witness ==
    \E i, j \in Handled :
        /\ Response(i).stderr = "BadHex" /\ Response(i).status = "Unauthorized"
        /\ Response(j).stderr = "ValidationError" /\ Response(j).status = "Unauthorized"

\* C4: a request without the header is answered BadRequest by the request
\* guard and nothing of the handler runs: no environment variable is read, no
\* signature is verified, no script is launched, whatever the environment.
C4_MissingHeaderIsBadRequest ==
    \A i \in Handled :
        ~HasHeader(i) =>
            /\ Response(i).status = "BadRequest"
            /\ Response(i).steps = <<>>
            /\ Response(i).verify = <<>>
            /\ Launches(i) = 0

\* A request without the header was handled with both variables set.
C4_Witness == \E i \in Handled : ~HasHeader(i) /\ ConfigSet

\* C7: for a request that passed verification the response is InternalServerError
\* if Command::spawn failed and Ok if it succeeded, and so is what a handler
\* past the spawn is about to return, wherever the children are by then.
\* Nothing the child does enters it: the handler can return while the child
\* has not run, and the response of a spawned child's request is Ok whatever
\* code the child exits with.
C7_ResponseDecidedByLaunch ==
    /\ \A i \in Started :
        (/\ HasHeader(i) /\ ConfigSet
         /\ signature_matches(Unwrap(env[WEBHOOK_STRING]), requests[i].body,
                              HeaderOf(i)).result = "Ok") =>
            /\ Launches(i) = 1
            /\ \A a \in 1..Len(spawned) :
                spawned[a].req = i =>
                    LET decided == IF spawned[a].ok THEN "Ok" ELSE "InternalServerError"
                    IN  /\ i \in Returning => Unwrap(returning[i]).status = decided
                        /\ i \in Handled => Response(i).status = decided
    /\ \A k \in 1..Len(children) :
        /\ children[k].req \in Started
        /\ children[k].req \in Returning =>
                Unwrap(returning[children[k].req]).status = "Ok"
        /\ children[k].req \in Handled => Response(children[k].req).status = "Ok"

\* A request is answered Ok while its script has not run, beside a request
\* whose spawn failed and which was answered InternalServerError after that.
C7_Witness ==
    /\ \E k \in 1..Len(children) :
        /\ children[k].pc = "running"
        /\ children[k].req \in Handled
        /\ Response(children[k].req).status = "Ok"
    /\ \E j \in 1..Len(spawned) :
        /\ ~spawned[j].ok
        /\ spawned[j].req \in Handled
        /\ Response(spawned[j].req).status = "InternalServerError"

\* C8: once a correctly signed request with the test's script is answered Ok,
\* file.temp exists and holds the script's complete output.
C8_EffectVisibleAtResponse ==
    \A i \in Handled :
        (Response(i).status = "Ok" /\ env[SCRIPT_STRING] = Some(ScriptTest)) =>
            file = Some(FileContent)

\* C10: the outcome does not depend on the first seven bytes.  A request whose
\* header has at least seven bytes is refused exactly when the same header
\* with "sha256=" for its first seven bytes fails verification, and with the
\* same error; two requests with the same body whose headers agree from byte 7
\* are both refused or both launched; a correct hex digest behind any seven
\* bytes launches the script.
C10_PrefixIgnored ==
    /\ \A i \in Handled :
        (HasHeader(i) /\ ConfigSet /\ Len(HeaderOf(i)) >= PrefixLen) =>
            LET canonical == signature_matches(Unwrap(env[WEBHOOK_STRING]),
                                requests[i].body, Sha256Prefix \o HexPart(HeaderOf(i)))
            IN  /\ canonical.result = "Ok" => Launches(i) = 1
                /\ canonical.result # "Ok" =>
                    /\ Response(i).status = "Unauthorized"
                    /\ Response(i).stderr = canonical.result
                /\ HexPart(HeaderOf(i)) =
                        Signed(Unwrap(env[WEBHOOK_STRING]), requests[i].body)
                    => Launches(i) = 1
    /\ \A i, j \in Handled :
        (/\ HasHeader(i) /\ HasHeader(j)
         /\ requests[i].body = requests[j].body
         /\ Len(HeaderOf(i)) >= PrefixLen /\ Len(HeaderOf(j)) >= PrefixLen
         /\ HexPart(HeaderOf(i)) = HexPart(HeaderOf(j))) =>
            /\ Launches(i) = Launches(j)
            /\ Response(i).stderr \in SignatureErrors =>
                Response(j).stderr = Response(i).stderr

\* "sha512=" before the correct digest: answered Ok and the script runs,
\* beside the same digest behind "sha256=".
C10_Witness ==
    \E i, j \in Handled :
        /\ requests[i].header = Some(Sha512Prefix \o Signed(SecretValid, BodyTest))
        /\ Response(i).status = "Ok"
        /\ \E k \in 1..Len(children) : children[k].req = i
        /\ requests[j].header = Some(HeaderValidRequest)
        /\ Launches(j) = 1

Called == IsSome(call)

TheCall == Unwrap(call)

\* C5: for every secret S and payload P, "sha256=" followed by the hex of
\* HMAC-SHA256(S, P) verifies.
C5_ValidSignatureVerifies ==
    Called =>
        (TheCall.signature =
            Sha256Prefix \o hex_encode(Mac(TheCall.secret, TheCall.payload))
         => TheCall.out.result = "Ok")

\* The vector of tests::signature_generation verified.
C5_Witness ==
    /\ Called
    /\ TheCall.secret = SecretGeneration /\ TheCall.payload = BodyHello
    /\ TheCall.signature = HeaderGeneration
    /\ TheCall.out.result = "Ok"

\* C6: verification succeeds only if the signature has its seven bytes and the
\* rest is, in either case of the letters, the hex of HMAC-SHA256(secret,
\* payload).  The digest of another secret or another payload, when it differs,
\* is refused with ValidationError, and so is hex that decodes to no bytes or
\* to a number of bytes other than the digest's.
C6_OnlyTheDigestVerifies ==
    Called =>
        LET c == TheCall
            t == HexPart(c.signature)
        IN  /\ c.out.result = "Ok" =>
                /\ Len(c.signature) >= PrefixLen
                /\ ToLower(t) = hex_encode(Mac(c.secret, c.payload))
            /\ \A k \in Secrets, m \in Payloads :
                (/\ c.signature = Sha256Prefix \o Signed(k, m)
                 /\ Mac(k, m) # Mac(c.secret, c.payload))
                    => c.out.result = "ValidationError"
            /\ (/\ Len(c.signature) >= PrefixLen
                /\ is_char_boundary(c.signature, PrefixLen)
                /\ Len(t) % 2 = 0
                /\ \A n \in 1..Len(t) : IsHexDigit(t[n])
                /\ Len(t) # 2 * OutputSize)
                    => c.out.result = "ValidationError"

\* The valid signature of another secret for the same payload was refused.
C6_Witness ==
    /\ Called
    /\ TheCall.secret = SecretValid /\ TheCall.payload = BodyTest
    /\ TheCall.signature = Sha256Prefix \o Signed(SecretInvalid, BodyTest)
    /\ TheCall.out.result = "ValidationError"

\* C9: a signature shorter than seven bytes, or one whose byte at offset 7 is
\* inside a character, fails with NotASCII, and neither the hex decoding nor
\* the HMAC ran.
C9_ShortSignatureIsNotASCII ==
    Called =>
        LET c == TheCall
        IN  (\/ Len(c.signature) < PrefixLen
             \/ /\ Len(c.signature) > PrefixLen
                /\ c.signature[PrefixLen + 1] \in 128..191) =>
                /\ c.out.result = "NotASCII"
                /\ c.out.steps = <<"split">>

\* The empty signature was refused.
C9_Witness ==
    /\ Called
    /\ TheCall.signature = <<>>
    /\ TheCall.out.result = "NotASCII"
====
